---- MODULE Spec2Model ----
(***************************************************************************)
(* The browser scripts of the application as state machines.               *)
(*  - static/js/typeahead.js: debounce, initTypeahead, its search closure  *)
(*    and resolveSelection, over the DOM state of each binding (input      *)
(*    text, hidden field, datalist options), the debounce timer and the    *)
(*    search calls suspended at an await (Spec, SpecAttach).               *)
(*  - static/js/scripts.js: openChart and openSalesChart over the charts   *)
(*    of the evoChart canvas (SpecChart).                                  *)
(*  - initEditorialTab: the editorial modal's listeners and handlers on    *)
(*    top of its two typeaheads (SpecEditorial, SpecFill).                 *)
(***************************************************************************)
EXTENDS Naturals, Sequences, FiniteSets, TLC

\* ---------------------------------------------------------------- bounds
\* longest JSON array a search response carries
MaxItems == 2
\* most search calls of one binding suspended at an await at the same time
MaxInFlight == 2

\* most initTypeahead calls for one input id
MaxAttach == 3

\* most chart calls suspended at an await at the same time
MaxCalls == 2
\* most charts constructed in one run
MaxCharts == 3

\* most editorial handlers and zero-delay timeouts pending at the same time
MaxPending == 2

\* ------------------------------------------------------- program constants
\* initEditorialTab attaches two typeaheads (promoter and publisher)
NumBindings == 2

Bindings == 1..NumBindings

\* texts the user can leave in the input; "" is the cleared input
Texts == {"", "bo", "Bob"}

\* SearchResult {id, label} entries a server can return; two share a label
Items == { [id |-> "1", label |-> "Alice"],
           [id |-> "2", label |-> "Bob"],
           [id |-> "3", label |-> "Bob"] }

\* JSON arrays of at most MaxItems entries, any order, duplicates allowed
Responses == UNION { [1..n -> Items] : n \in 0..MaxItems }

\* value of the timer handle t when no timeout is pending; coalesced records
\* whether arming the timeout cancelled an earlier pending one
NoTimer == [pending |-> FALSE, args |-> "", coalesced |-> FALSE]

VARIABLES
  bound,     \* bindings on which initTypeahead has run
  input,     \* input[b]: input.value
  hidden,    \* hidden[b]: hidden.value
  dl,        \* dl[b]: the <option>s of the datalist, [value, id], in order
  t,         \* t[b]: the pending timeout of the debounce closure
  inflight,  \* inflight[b]: search calls suspended at an await, in issue order:
             \* where each waits (fetch or r.json()) and whether it is the
             \* most recently issued one
  last,      \* the step just taken and how its search call settled
  lists,     \* lists[b]: number of elements of the document whose id is the
             \* list id of binding b
  listAttr,  \* listAttr[b]: the input's list attribute
  attached,  \* attached[b]: number of initTypeahead calls made for binding b
  hasGetChart, \* the loaded Chart.js keeps a registry (Chart.getChart, v3/v4)
  hasModal,  \* the page holds the element chartModal
  hasCanvas, \* the page holds the canvas evoChart
  live,      \* charts constructed on the canvas and not destroyed
  evoChart,  \* the script's `let evoChart`: a chart or NoChart
  winEvoChart, \* the property window.evoChart: a chart or NoChart
  made,      \* number of charts constructed so far
  calls,     \* calls[s]: number of chart calls suspended at stage s
  subtitle,  \* text of chart-modal-subtitle
  shown,     \* the chart modal has been shown
  clast,     \* the chart step just taken and how its call settled
  fields,    \* fields[f]: value of the editorial modal's text field f
  fillTimers, \* pending zero-delay timeouts of the promoter change listener,
             \* in firing order, each with the id its change event resolved
  pending,   \* pending[s]: number of editorial async handlers suspended at s
  dirty      \* dirty[b]: the user has edited the input of binding b since
             \* its last change event

\* the elements initTypeahead looks up or creates
docVars == <<lists, listAttr, attached>>

\* the chart modal of scripts.js
chartVars == <<hasGetChart, hasModal, hasCanvas, live, evoChart, winEvoChart,
               made, calls, subtitle, shown, clast>>

\* the state of the typeahead bindings
typeaheadVars == <<bound, input, hidden, dl, t, inflight, last>>

\* the editorial modal of initEditorialTab
editVars == <<fields, fillTimers, pending, dirty>>

\* what the typeahead handlers never touch
page == <<docVars, chartVars, editVars>>

vars == <<typeaheadVars, page>>

\* ------------------------------------------------------------ pure helpers

\* sequence s without its i-th element
RemoveAt(s, i) == [j \in 1..(Len(s) - 1) |-> IF j < i THEN s[j] ELSE s[j + 1]]

\* the forEach loop: one <option> per item, value = label, dataset.id = id
RECURSIVE AppendAll(_, _)
AppendAll(opts, js) ==
  IF js = <<>> THEN opts
  ELSE AppendAll(Append(opts, [value |-> Head(js).label, id |-> Head(js).id]),
                 Tail(js))

\* ------------------------------------------------------------- typeahead.js

\* a debounce that keeps the first scheduled call while one is pending
debounceKeepFirst(tb, args) ==
  IF tb.pending THEN [tb EXCEPT !.coalesced = TRUE]
  ELSE [pending |-> TRUE, args |-> args, coalesced |-> FALSE]

\* debounce's returned function: clearTimeout(t); t = setTimeout(fn(args), ms)
debounce(tb, args) ==
  [pending |-> TRUE, args |-> args, coalesced |-> tb.pending]

\* a query test that lets every query through to fetch
IsEmptyQueryNever(q) == FALSE

\* `!q || q.length < 1` on a string
IsEmptyQuery(q) == q = ""

\* the forEach loop without the preceding dl.innerHTML = ""
PopulateNoClear(opts, js) == AppendAll(opts, js)

\* dl.innerHTML = ""; js.forEach(item => dl.appendChild(option))
Populate(opts, js) == AppendAll(<<>>, js)

\* a loose comparison: case-insensitive prefix
MatchesPrefixNoCase(optValue, val) ==
  \/ optValue = val
  \/ val = "bo" /\ optValue = "Bob"

\* `o.value === val`
Matches(optValue, val) == optValue = val

\* a loop without the break: the last matching option wins
RECURSIVE FoundIdLast(_, _)
FoundIdLast(val, opts) ==
  IF opts = <<>> THEN ""
  ELSE LET rest == FoundIdLast(val, Tail(opts)) IN
         IF rest # "" THEN rest
         ELSE IF Matches(Head(opts).value, val) THEN Head(opts).id
         ELSE ""

\* the for..of loop of resolveSelection: the first matching option's
\* dataset.id (or "" when that is empty) and break; "" when none matches
RECURSIVE FoundId(_, _)
FoundId(val, opts) ==
  IF opts = <<>> THEN ""
  ELSE IF Matches(Head(opts).value, val) THEN Head(opts).id
  ELSE FoundId(val, Tail(opts))

\* the record of a step: the handler that ran, on which binding, the query
\* of the request it sent (q, with sent), the array a response delivered,
\* the state of the search call's promise after the step,
\* whether the call was the most recently issued request, whether the
\* expired timeout had replaced an earlier one, and whether a resolution
\* directly followed another resolution of the same binding
Step(op, b, js, promise, newest) ==
  [op |-> op, b |-> b, js |-> js, promise |-> promise, newest |-> newest,
   coalesced |-> FALSE, repeat |-> FALSE, sent |-> FALSE, q |-> ""]

\* the step before was a resolution (change or blur) of binding b
JustResolved(b) == last.op \in {"change", "blur"} /\ last.b = b

\* listId = inputId + "_list"
ListId(b) == <<"list", b>>

\* ---------------------------------------------------------------- scripts.js

\* `let evoChart = null`, and window.evoChart before any assignment
NoChart == 0

\* the awaits of openChart and of openSalesChart, in program order
ChartAwaits == <<"meta_fetch", "meta_json", "data_fetch", "data_json">>

\* a suspended openChart call
OC(at) == [fn |-> "openChart", at |-> at, metaOk |-> TRUE]

\* a suspended openSalesChart call; metaOk records whether its
\* concert-metadata response was ok
SC(at, metaOk) == [fn |-> "openSalesChart", at |-> at, metaOk |-> metaOk]

Stages ==
  {OC(ChartAwaits[i]) : i \in 1..4}
    \cup {SC(ChartAwaits[i], TRUE) : i \in 1..4}
    \cup {SC(ChartAwaits[i], FALSE) : i \in 3..4}

RECURSIVE SumOver(_, _)
SumOver(f, S) ==
  IF S = {} THEN 0
  ELSE LET x == CHOOSE x \in S : TRUE IN f[x] + SumOver(f, S \ {x})

\* chart calls suspended at an await
Suspended == SumOver(calls, Stages)

\* concert_meta payloads: {} and one with a venue
Metas == {"", "venue"}

\* parts.join(" · ") of the payload's festival, venue, place and date
Subtitle(meta) == meta

\* Chart.getChart(canvas): the registered chart of the canvas, if any
getChart == IF live = {} THEN NoChart ELSE CHOOSE c \in live : TRUE

\* the constructor of a Chart.js with a registry throws "Canvas is already
\* in use" when the canvas holds a chart; one without a registry constructs
CanConstruct(onCanvas) == ~hasGetChart \/ onCanvas = {}

\* the record of a chart step: the handler that ran, the function whose call
\* it belongs to, the state of that call's promise after the step, whether
\* alert() was called and whether the metadata response of the call was ok
CStep(op, fn, promise, alert) ==
  [op |-> op, fn |-> fn, promise |-> promise, alert |-> alert, metaOk |-> TRUE]

\* the four text fields fillFromPromoterId and the edit handler write
FieldNames == {"first_name", "last_name", "contact_email", "contact_phone"}

\* awaits of the editorial handlers: fillFromPromoterId, the edit-share
\* click handler and the create-publisher click handler (which looks at
\* r.ok after r.json())
EdStages == {"fill_fetch", "fill_json", "edit_fetch", "edit_json",
             "create_fetch", "create_json_ok", "create_json_notok"}

\* the editorial modal untouched: empty fields, nothing pending
EditIdle ==
  /\ fields = [f \in FieldNames |-> ""]
  /\ fillTimers = <<>>
  /\ pending = [s \in EdStages |-> 0]
  /\ dirty = [b \in Bindings |-> FALSE]

\* no chart call has been made
ChartIdle ==
  /\ live = {}
  /\ evoChart = NoChart
  /\ winEvoChart = NoChart
  /\ made = 0
  /\ calls = [s \in Stages |-> 0]
  /\ subtitle = ""
  /\ shown = FALSE
  /\ clast = CStep("init", "none", "none", FALSE)

\* a call leaves stage s
Leave(s) == [calls EXCEPT ![s] = @ - 1]

\* a call moves from stage s to stage n
Move(s, n) == [Leave(s) EXCEPT ![n] = @ + 1]

\* openChart called: runs to its first await
openChart ==
  /\ hasModal /\ hasCanvas
  /\ Suspended < MaxCalls
  /\ calls' = [calls EXCEPT ![OC("meta_fetch")] = @ + 1]
  /\ clast' = CStep("call", "openChart", "pending", FALSE)
  /\ UNCHANGED <<hasGetChart, hasModal, hasCanvas, live, evoChart,
                 winEvoChart, made, subtitle, shown>>
  /\ UNCHANGED <<typeaheadVars, docVars, editVars>>

\* one of openChart's first three awaits resolves (the status of the
\* response is not looked at); the call runs to the next await
openChartResume(i) ==
  /\ i \in 1..3
  /\ calls[OC(ChartAwaits[i])] > 0
  /\ calls' = Move(OC(ChartAwaits[i]), OC(ChartAwaits[i + 1]))
  /\ clast' = CStep("resume", "openChart", "pending", FALSE)
  /\ UNCHANGED <<hasGetChart, hasModal, hasCanvas, live, evoChart,
                 winEvoChart, made, subtitle, shown>>
  /\ UNCHANGED <<typeaheadVars, docVars, editVars>>

\* r.json() of the plays resolves: the chart in `evoChart` is destroyed, a
\* chart is constructed and assigned to it, the modal is shown; when the
\* constructor throws the call's promise is rejected
openChartDraw ==
  /\ calls[OC("data_json")] > 0
  /\ calls' = Leave(OC("data_json"))
  /\ LET kept == live \ {evoChart} IN
       IF CanConstruct(kept)
         THEN /\ made < MaxCharts
              /\ live' = kept \cup {made + 1}
              /\ evoChart' = made + 1
              /\ made' = made + 1
              /\ shown' = TRUE
              /\ clast' = CStep("draw", "openChart", "fulfilled", FALSE)
         ELSE /\ live' = kept
              /\ clast' = CStep("throw", "openChart", "rejected", FALSE)
              /\ UNCHANGED <<evoChart, made, shown>>
  /\ UNCHANGED <<hasGetChart, hasModal, hasCanvas, winEvoChart, subtitle>>
  /\ UNCHANGED <<typeaheadVars, docVars, editVars>>

\* one of openChart's awaits rejects: nothing catches it
openChartReject(i) ==
  /\ i \in 1..4
  /\ calls[OC(ChartAwaits[i])] > 0
  /\ calls' = Leave(OC(ChartAwaits[i]))
  /\ clast' = CStep("reject", "openChart", "rejected", FALSE)
  /\ UNCHANGED <<hasGetChart, hasModal, hasCanvas, live, evoChart,
                 winEvoChart, made, subtitle, shown>>
  /\ UNCHANGED <<typeaheadVars, docVars, editVars>>

\* a catch block that throws the error again
salesCatchRethrow(op, metaOk) ==
  [CStep(op, "openSalesChart", "rejected", FALSE) EXCEPT !.metaOk = metaOk]

\* openSalesChart's catch block: console.error, alert; the call returns
salesCatch(op, metaOk) ==
  [CStep(op, "openSalesChart", "fulfilled", TRUE) EXCEPT !.metaOk = metaOk]

\* openSalesChart called: without the modal or the canvas it throws into its
\* catch block; else it destroys the chart it finds (the registered chart of
\* the canvas, or window.evoChart without a registry) and runs to its first
\* await
openSalesChart ==
  /\ Suspended < MaxCalls
  /\ IF ~hasModal \/ ~hasCanvas
       THEN /\ clast' = salesCatch("missing", TRUE)
            /\ UNCHANGED <<live, calls>>
       ELSE /\ live' = live \ {IF hasGetChart THEN getChart ELSE winEvoChart}
            /\ calls' = [calls EXCEPT ![SC("meta_fetch", TRUE)] = @ + 1]
            /\ clast' = CStep("call", "openSalesChart", "pending", FALSE)
  /\ UNCHANGED <<hasGetChart, hasModal, hasCanvas, evoChart, winEvoChart,
                 made, subtitle, shown>>
  /\ UNCHANGED <<typeaheadVars, docVars, editVars>>

\* the concert_meta fetch resolves: an ok response is parsed next; for any
\* other, meta = {} and the call writes the empty subtitle and runs to the
\* sales fetch
salesMetaFetched(ok) ==
  /\ calls[SC("meta_fetch", TRUE)] > 0
  /\ IF ok
       THEN /\ calls' = Move(SC("meta_fetch", TRUE), SC("meta_json", TRUE))
            /\ clast' = CStep("resume", "openSalesChart", "pending", FALSE)
            /\ UNCHANGED subtitle
       ELSE /\ calls' = Move(SC("meta_fetch", TRUE), SC("data_fetch", FALSE))
            /\ subtitle' = Subtitle("")
            /\ clast' = [CStep("meta_notok", "openSalesChart", "pending", FALSE)
                           EXCEPT !.metaOk = FALSE]
  /\ UNCHANGED <<hasGetChart, hasModal, hasCanvas, live, evoChart,
                 winEvoChart, made, shown>>
  /\ UNCHANGED <<typeaheadVars, docVars, editVars>>

\* metaR.json() resolves: the subtitle is written, the call runs to the
\* sales fetch
salesMetaParsed(meta) ==
  /\ calls[SC("meta_json", TRUE)] > 0
  /\ calls' = Move(SC("meta_json", TRUE), SC("data_fetch", TRUE))
  /\ subtitle' = Subtitle(meta)
  /\ clast' = CStep("resume", "openSalesChart", "pending", FALSE)
  /\ UNCHANGED <<hasGetChart, hasModal, hasCanvas, live, evoChart,
                 winEvoChart, made, shown>>
  /\ UNCHANGED <<typeaheadVars, docVars, editVars>>

\* the sales_json fetch resolves: a response that is not ok throws
salesFetched(metaOk, ok) ==
  /\ calls[SC("data_fetch", metaOk)] > 0
  /\ IF ok
       THEN /\ calls' = Move(SC("data_fetch", metaOk), SC("data_json", metaOk))
            /\ clast' = [CStep("resume", "openSalesChart", "pending", FALSE)
                           EXCEPT !.metaOk = metaOk]
       ELSE /\ calls' = Leave(SC("data_fetch", metaOk))
            /\ clast' = salesCatch("sales_notok", metaOk)
  /\ UNCHANGED <<hasGetChart, hasModal, hasCanvas, live, evoChart,
                 winEvoChart, made, subtitle, shown>>
  /\ UNCHANGED <<typeaheadVars, docVars, editVars>>

\* r.json() of the sales resolves: a chart is constructed and assigned to
\* window.evoChart, the modal is shown; a throwing constructor is caught
salesDraw(metaOk) ==
  /\ calls[SC("data_json", metaOk)] > 0
  /\ calls' = Leave(SC("data_json", metaOk))
  /\ IF CanConstruct(live)
       THEN /\ made < MaxCharts
            /\ live' = live \cup {made + 1}
            /\ winEvoChart' = made + 1
            /\ made' = made + 1
            /\ shown' = TRUE
            /\ clast' = [CStep("draw", "openSalesChart", "fulfilled", FALSE)
                           EXCEPT !.metaOk = metaOk]
       ELSE /\ clast' = salesCatch("throw", metaOk)
            /\ UNCHANGED <<live, winEvoChart, made, shown>>
  /\ UNCHANGED <<hasGetChart, hasModal, hasCanvas, evoChart, subtitle>>
  /\ UNCHANGED <<typeaheadVars, docVars, editVars>>

\* one of openSalesChart's awaits rejects (failed fetch, unparsable body):
\* the catch block runs
salesReject(i, metaOk) ==
  /\ i \in 1..4
  /\ SC(ChartAwaits[i], metaOk) \in Stages
  /\ calls[SC(ChartAwaits[i], metaOk)] > 0
  /\ calls' = Leave(SC(ChartAwaits[i], metaOk))
  /\ clast' = salesCatch("reject", metaOk)
  /\ UNCHANGED <<hasGetChart, hasModal, hasCanvas, live, evoChart,
                 winEvoChart, made, subtitle, shown>>
  /\ UNCHANGED <<typeaheadVars, docVars, editVars>>

\* a page with or without the chart elements, with either generation of
\* Chart.js, before any chart call; the typeaheads are idle
InitChart ==
  /\ hasGetChart \in BOOLEAN
  /\ hasModal \in BOOLEAN
  /\ hasCanvas \in BOOLEAN
  /\ ChartIdle
  /\ EditIdle
  /\ bound = {1}
  /\ lists = [b \in Bindings |-> IF b = 1 THEN 1 ELSE 0]
  /\ listAttr = [b \in Bindings |-> IF b = 1 THEN ListId(b) ELSE <<>>]
  /\ attached = [b \in Bindings |-> IF b = 1 THEN 1 ELSE 0]
  /\ input = [b \in Bindings |-> ""]
  /\ hidden = [b \in Bindings |-> ""]
  /\ dl = [b \in Bindings |-> <<>>]
  /\ t = [b \in Bindings |-> NoTimer]
  /\ inflight = [b \in Bindings |-> <<>>]
  /\ last = Step("init", 1, <<>>, "none", TRUE)

NextChart ==
  \/ openChart
  \/ \E i \in 1..3 : openChartResume(i)
  \/ openChartDraw
  \/ \E i \in 1..4 : openChartReject(i)
  \/ openSalesChart
  \/ \E ok \in BOOLEAN : salesMetaFetched(ok)
  \/ \E meta \in Metas : salesMetaParsed(meta)
  \/ \E metaOk, ok \in BOOLEAN : salesFetched(metaOk, ok)
  \/ \E metaOk \in BOOLEAN : salesDraw(metaOk)
  \/ \E i \in 1..4, metaOk \in BOOLEAN : salesReject(i, metaOk)

SpecChart == InitChart /\ [][NextChart]_vars

\* ------------------------------------------- typeahead.js: initTypeahead

\* an attach that appends a new list whether or not one exists
initTypeaheadAlwaysCreate(b) ==
  /\ attached[b] < MaxAttach
  /\ lists' = [lists EXCEPT ![b] = @ + 1]
  /\ dl' = [dl EXCEPT ![b] = <<>>]
  /\ listAttr' = [listAttr EXCEPT ![b] = ListId(b)]
  /\ attached' = [attached EXCEPT ![b] = @ + 1]
  /\ bound' = bound \cup {b}
  /\ last' = Step("attach", b, <<>>, "none", TRUE)
  /\ UNCHANGED <<input, hidden, t, inflight, chartVars, editVars>>

\* initTypeahead up to the listener registration: the list element is looked
\* up by id and created (empty, appended to the body) when there is none; an
\* existing one is used as it is, options included; the input's list
\* attribute is set to the list id
initTypeahead(b) ==
  /\ attached[b] < MaxAttach
  /\ lists' = [lists EXCEPT ![b] = IF @ = 0 THEN 1 ELSE @]
  /\ dl' = [dl EXCEPT ![b] = IF lists[b] = 0 THEN <<>> ELSE @]
  /\ listAttr' = [listAttr EXCEPT ![b] = ListId(b)]
  /\ attached' = [attached EXCEPT ![b] = @ + 1]
  /\ bound' = bound \cup {b}
  /\ last' = Step("attach", b, <<>>, "none", TRUE)
  /\ UNCHANGED <<input, hidden, t, inflight, chartVars, editVars>>

\* the document before any initTypeahead call: the page may or may not
\* already hold an element with the list id, with or without options
InitAttach ==
  /\ bound = {}
  /\ input = [b \in Bindings |-> ""]
  /\ hidden = [b \in Bindings |-> ""]
  /\ lists \in [Bindings -> {0, 1}]
  /\ dl \in [Bindings -> {<<>>, <<[value |-> "Bob", id |-> "2"]>>}]
  /\ \A b \in Bindings : lists[b] = 0 => dl[b] = <<>>
  /\ t = [b \in Bindings |-> NoTimer]
  /\ inflight = [b \in Bindings |-> <<>>]
  /\ listAttr = [b \in Bindings |-> <<>>]
  /\ attached = [b \in Bindings |-> 0]
  /\ hasGetChart = TRUE /\ hasModal = TRUE /\ hasCanvas = TRUE /\ ChartIdle
  /\ EditIdle
  /\ last = Step("init", 1, <<>>, "none", TRUE)

NextAttach == \E b \in Bindings : initTypeahead(b)

SpecAttach == InitAttach /\ [][NextAttach]_vars

\* ---------------------------------------- typeahead.js: events and search

\* one typeahead attached to an empty input: initTypeahead has created its
\* empty datalist, no timeout is pending and no search is running
Init ==
  /\ hasGetChart = TRUE /\ hasModal = TRUE /\ hasCanvas = TRUE /\ ChartIdle
  /\ EditIdle
  /\ bound = {1}
  /\ lists = [b \in Bindings |-> IF b = 1 THEN 1 ELSE 0]
  /\ listAttr = [b \in Bindings |-> IF b = 1 THEN ListId(b) ELSE <<>>]
  /\ attached = [b \in Bindings |-> IF b = 1 THEN 1 ELSE 0]
  /\ input = [b \in Bindings |-> ""]
  /\ hidden = [b \in Bindings |-> ""]
  /\ dl = [b \in Bindings |-> <<>>]
  /\ t = [b \in Bindings |-> NoTimer]
  /\ inflight = [b \in Bindings |-> <<>>]
  /\ last = Step("init", 1, <<>>, "none", TRUE)

\* an input listener that also aborts the requests still in flight
OnInputAborting(b, text) ==
  /\ b \in bound
  /\ input' = [input EXCEPT ![b] = text]
  /\ t' = [t EXCEPT ![b] = debounce(t[b], text)]
  /\ inflight' = [inflight EXCEPT ![b] = <<>>]
  /\ last' = Step("input", b, <<>>, "none", TRUE)
  /\ UNCHANGED <<page, bound, hidden, dl>>

\* an input listener whose debounce timer is shared by all bindings
OnInputSharedTimer(b, text) ==
  /\ b \in bound
  /\ input' = [input EXCEPT ![b] = text]
  /\ t' = [c \in Bindings |-> IF c = b THEN debounce(t[b], text) ELSE NoTimer]
  /\ last' = Step("input", b, <<>>, "none", TRUE)
  /\ UNCHANGED <<page, bound, hidden, dl, inflight>>

\* the user edits the text; the 'input' listener calls search(e.target.value),
\* which is the debounced function: it only re-arms the timer
OnInput(b, text) ==
  /\ b \in bound
  /\ input' = [input EXCEPT ![b] = text]
  /\ t' = [t EXCEPT ![b] = debounce(t[b], text)]
  /\ last' = Step("input", b, <<>>, "none", TRUE)
  /\ UNCHANGED <<page, bound, hidden, dl, inflight>>

\* the timeout expires: the async body runs up to its first await.  An empty
\* query clears the datalist and returns; any other query calls fetch.
search(b) ==
  /\ b \in bound
  /\ t[b].pending
  /\ t' = [t EXCEPT ![b] = NoTimer]
  /\ IF IsEmptyQuery(t[b].args)
       THEN /\ dl' = [dl EXCEPT ![b] = <<>>]
            /\ last' = [Step("timer", b, <<>>, "fulfilled", TRUE)
                          EXCEPT !.coalesced = t[b].coalesced]
            /\ UNCHANGED inflight
       ELSE /\ Len(inflight[b]) < MaxInFlight
            /\ inflight' = [inflight EXCEPT ![b] =
                 Append([i \in 1..Len(@) |-> [@[i] EXCEPT !.newest = FALSE]],
                        [at |-> "fetch", newest |-> TRUE])]
            /\ last' = [Step("timer", b, <<>>, "pending", TRUE)
                          EXCEPT !.coalesced = t[b].coalesced,
                                 !.sent = TRUE, !.q = t[b].args]
            /\ UNCHANGED dl
  /\ UNCHANGED <<page, bound, input, hidden>>

\* a non-ok response handled as an empty result: the datalist is cleared
searchFetchResolveClearing(b, i, ok) ==
  /\ b \in bound
  /\ i \in 1..Len(inflight[b])
  /\ inflight[b][i].at = "fetch"
  /\ IF ok
       THEN /\ inflight' = [inflight EXCEPT ![b][i].at = "json"]
            /\ last' = Step("fetch_ok", b, <<>>, "pending", inflight[b][i].newest)
            /\ UNCHANGED dl
       ELSE /\ inflight' = [inflight EXCEPT ![b] = RemoveAt(@, i)]
            /\ dl' = [dl EXCEPT ![b] = <<>>]
            /\ last' = Step("fetch_notok", b, <<>>, "fulfilled", inflight[b][i].newest)
  /\ UNCHANGED <<page, bound, input, hidden, t>>

\* fetch resolves with a response r: `if(!r.ok) return;`, else await r.json()
searchFetchResolve(b, i, ok) ==
  /\ b \in bound
  /\ i \in 1..Len(inflight[b])
  /\ inflight[b][i].at = "fetch"
  /\ IF ok
       THEN /\ inflight' = [inflight EXCEPT ![b][i].at = "json"]
            /\ last' = Step("fetch_ok", b, <<>>, "pending", inflight[b][i].newest)
       ELSE /\ inflight' = [inflight EXCEPT ![b] = RemoveAt(@, i)]
            /\ last' = Step("fetch_notok", b, <<>>, "fulfilled", inflight[b][i].newest)
  /\ UNCHANGED <<page, bound, input, hidden, dl, t>>

\* a failed fetch that is sent again
searchFetchRejectRetry(b, i) ==
  /\ b \in bound
  /\ i \in 1..Len(inflight[b])
  /\ inflight[b][i].at = "fetch"
  /\ last' = [Step("fetch_err", b, <<>>, "pending", inflight[b][i].newest)
                EXCEPT !.sent = TRUE]
  /\ UNCHANGED <<page, bound, input, hidden, dl, t, inflight>>

\* fetch rejects (network failure): nothing catches it, the call's promise
\* is rejected
searchFetchReject(b, i) ==
  /\ b \in bound
  /\ i \in 1..Len(inflight[b])
  /\ inflight[b][i].at = "fetch"
  /\ inflight' = [inflight EXCEPT ![b] = RemoveAt(@, i)]
  /\ last' = Step("fetch_err", b, <<>>, "rejected", inflight[b][i].newest)
  /\ UNCHANGED <<page, bound, input, hidden, dl, t>>

\* a response handler that also resolves the selection again
searchJsonResolveResolving(b, i, js) ==
  /\ b \in bound
  /\ i \in 1..Len(inflight[b])
  /\ inflight[b][i].at = "json"
  /\ dl' = [dl EXCEPT ![b] = Populate(@, js)]
  /\ hidden' = [hidden EXCEPT ![b] = FoundId(input[b], Populate(dl[b], js))]
  /\ inflight' = [inflight EXCEPT ![b] = RemoveAt(@, i)]
  /\ last' = Step("json_ok", b, js, "fulfilled", inflight[b][i].newest)
  /\ UNCHANGED <<page, bound, input, t>>

\* r.json() resolves with the array js: the datalist is repopulated
searchJsonResolve(b, i, js) ==
  /\ b \in bound
  /\ i \in 1..Len(inflight[b])
  /\ inflight[b][i].at = "json"
  /\ dl' = [dl EXCEPT ![b] = Populate(@, js)]
  /\ inflight' = [inflight EXCEPT ![b] = RemoveAt(@, i)]
  /\ last' = Step("json_ok", b, js, "fulfilled", inflight[b][i].newest)
  /\ UNCHANGED <<page, bound, input, hidden, t>>

\* r.json() rejects (unparsable body): nothing catches it either
searchJsonReject(b, i) ==
  /\ b \in bound
  /\ i \in 1..Len(inflight[b])
  /\ inflight[b][i].at = "json"
  /\ inflight' = [inflight EXCEPT ![b] = RemoveAt(@, i)]
  /\ last' = Step("json_err", b, <<>>, "rejected", inflight[b][i].newest)
  /\ UNCHANGED <<page, bound, input, hidden, dl, t>>

\* a resolution that takes the matched option out of the datalist
resolveSelectionConsuming(b, ev) ==
  /\ b \in bound
  /\ hidden' = [hidden EXCEPT ![b] = FoundId(input[b], dl[b])]
  /\ dl' = [dl EXCEPT ![b] = SelectSeq(@, LAMBDA o : ~Matches(o.value, input[b]))]
  /\ last' = [Step(ev, b, <<>>, "none", TRUE) EXCEPT !.repeat = JustResolved(b)]
  /\ UNCHANGED <<page, bound, input, t, inflight>>

\* the 'change' and 'blur' listeners
resolveSelection(b, ev) ==
  /\ b \in bound
  /\ hidden' = [hidden EXCEPT ![b] = FoundId(input[b], dl[b])]
  /\ last' = [Step(ev, b, <<>>, "none", TRUE) EXCEPT !.repeat = JustResolved(b)]
  /\ UNCHANGED <<page, bound, input, dl, t, inflight>>

Next ==
  \E b \in Bindings :
    \/ \E text \in Texts : OnInput(b, text)
    \/ search(b)
    \/ \E i \in 1..MaxInFlight, ok \in BOOLEAN : searchFetchResolve(b, i, ok)
    \/ \E i \in 1..MaxInFlight : searchFetchReject(b, i)
    \/ \E i \in 1..MaxInFlight, js \in Responses : searchJsonResolve(b, i, js)
    \/ \E i \in 1..MaxInFlight : searchJsonReject(b, i)
    \/ \E ev \in {"change", "blur"} : resolveSelection(b, ev)

Spec == Init /\ [][Next]_vars

\* texts typed into the two inputs of a page with two typeaheads
PairTexts == {"", "Bob"}

\* responses to their searches: no result, one result
PairResponses == {<<>>, <<[id |-> "2", label |-> "Bob"]>>}

\* search calls of both bindings suspended at an await
PageInFlight == Len(inflight[1]) + Len(inflight[2])

\* a timer expiry on a page whose bindings together keep fewer than
\* MaxInFlight calls suspended
searchOnPage(b) == PageInFlight < MaxInFlight /\ search(b)

\* both typeaheads of initEditorialTab attached to empty inputs
InitPair ==
  /\ hasGetChart = TRUE /\ hasModal = TRUE /\ hasCanvas = TRUE /\ ChartIdle
  /\ EditIdle
  /\ bound = Bindings
  /\ lists = [b \in Bindings |-> 1]
  /\ listAttr = [b \in Bindings |-> ListId(b)]
  /\ attached = [b \in Bindings |-> 1]
  /\ input = [b \in Bindings |-> ""]
  /\ hidden = [b \in Bindings |-> ""]
  /\ dl = [b \in Bindings |-> <<>>]
  /\ t = [b \in Bindings |-> NoTimer]
  /\ inflight = [b \in Bindings |-> <<>>]
  /\ last = Step("init", 1, <<>>, "none", TRUE)

NextPair ==
  \E b \in Bindings :
    \/ \E text \in PairTexts : OnInput(b, text)
    \/ searchOnPage(b)
    \/ \E i \in 1..MaxInFlight, ok \in BOOLEAN : searchFetchResolve(b, i, ok)
    \/ \E i \in 1..MaxInFlight : searchFetchReject(b, i)
    \/ \E i \in 1..MaxInFlight, js \in PairResponses :
         searchJsonResolve(b, i, js)
    \/ \E i \in 1..MaxInFlight : searchJsonReject(b, i)
    \/ \E ev \in {"change", "blur"} : resolveSelection(b, ev)

SpecPair == InitPair /\ [][NextPair]_vars

\* ------------------------------------------------- initEditorialTab (part_001)

\* texts the user leaves in the promoter and publisher inputs
EdTexts == {"", "Bob"}

\* options earlier searches have left in the datalists: a promoter "Bob",
\* no publisher
EdLists == [b \in Bindings |->
              IF b = 1 THEN <<[value |-> "Bob", id |-> "2"]>> ELSE <<>>]

\* bodies of /api/promoters/<id>: an error payload, a promoter with names
\* and a publishing company, a promoter without either
Promoters ==
  { [error |-> TRUE,  name |-> "",    cname |-> "",    cid |-> ""],
    [error |-> FALSE, name |-> "srv", cname |-> "Ana", cid |-> "7"],
    [error |-> FALSE, name |-> "",    cname |-> "",    cid |-> ""] }

\* bodies of /api/song_editorial_shares/<id>: an error payload, a share with
\* a promoter, a share without one
Shares ==
  { [error |-> TRUE,  pid |-> "",  nick |-> "",    name |-> "",
     cname |-> "",    cid |-> ""],
    [error |-> FALSE, pid |-> "7", nick |-> "Bob", name |-> "srv",
     cname |-> "Ana", cid |-> "7"],
    [error |-> FALSE, pid |-> "",  nick |-> "",    name |-> "",
     cname |-> "",    cid |-> ""] }

\* bodies of /api/publishing_companies/create: an error payload, the created
\* company with and without a label
Created ==
  { [error |-> TRUE,  label |-> "",    id |-> ""],
    [error |-> FALSE, label |-> "Ana", id |-> "7"],
    [error |-> FALSE, label |-> "",    id |-> "7"] }

\* trimmed values of newPublisherName at a click on the create button
NewPublisherNames == {"", "Ana"}

\* the record of an editorial step: the handler that ran, on which binding,
\* whether it issued the promoter lookup and with which id, the hidden id
\* the step found in its binding's field, and the id that the change event
\* behind an expired timeout had resolved
EdStep(op, b) ==
  [op |-> op, b |-> b, sent |-> FALSE, q |-> "", had |-> "", resolved |-> ""]

\* editorial handlers and zero-delay timeouts pending
Pending == Len(fillTimers) + SumOver(pending, EdStages)

\* a handler suspends at stage s
Enter(s) == [pending EXCEPT ![s] = @ + 1]

\* a handler suspended at stage s returns
Return(s) == [pending EXCEPT ![s] = @ - 1]

\* a handler suspended at stage s resumes and suspends at stage n
Resume(s, n) == [Return(s) EXCEPT ![n] = @ + 1]

\* an assignment that does not look at the present value
FillAlways(old, v) == v

\* `if (el && !el.value) el.value = v || ''`
FillIfEmpty(old, v) == IF old = "" THEN v ELSE old

\* an input listener pair that leaves the hidden id alone
EdOnInputKeeping(b, text) ==
  /\ input' = [input EXCEPT ![b] = text]
  /\ t' = [t EXCEPT ![b] = debounce(t[b], text)]
  /\ dirty' = [dirty EXCEPT ![b] = TRUE]
  /\ last' = [EdStep("input", b) EXCEPT !.had = hidden[b]]
  /\ UNCHANGED <<bound, hidden, dl, inflight, docVars, chartVars,
                 fields, fillTimers, pending>>

\* an input event on the promoter or publisher input: the typeahead's
\* listener schedules the search, the editorial listener empties the hidden id
EdOnInput(b, text) ==
  /\ input' = [input EXCEPT ![b] = text]
  /\ t' = [t EXCEPT ![b] = debounce(t[b], text)]
  /\ hidden' = [hidden EXCEPT ![b] = ""]
  /\ dirty' = [dirty EXCEPT ![b] = TRUE]
  /\ last' = [EdStep("input", b) EXCEPT !.had = hidden[b]]
  /\ UNCHANGED <<bound, dl, inflight, docVars, chartVars,
                 fields, fillTimers, pending>>

\* a blur event, or a change event of the publisher input: resolveSelection;
\* the browser fires change for an edited input, before its blur
EdResolve(b, ev) ==
  /\ ev = "change" => b = 2
  /\ dirty[b] = (ev = "change")
  /\ hidden' = [hidden EXCEPT ![b] = FoundId(input[b], dl[b])]
  /\ dirty' = [dirty EXCEPT ![b] = FALSE]
  /\ last' = EdStep(ev, b)
  /\ UNCHANGED <<bound, input, dl, t, inflight, docVars, chartVars,
                 fields, fillTimers, pending>>

\* a change event of the promoter input: resolveSelection (registered by
\* initTypeahead, so first), then the editorial listener arms a zero-delay
\* timeout
EdPromoterChange ==
  /\ dirty[1]
  /\ Pending < MaxPending
  /\ dirty' = [dirty EXCEPT ![1] = FALSE]
  /\ hidden' = [hidden EXCEPT ![1] = FoundId(input[1], dl[1])]
  /\ fillTimers' = Append(fillTimers, [resolved |-> FoundId(input[1], dl[1])])
  /\ last' = EdStep("change", 1)
  /\ UNCHANGED <<bound, input, dl, t, inflight, docVars, chartVars,
                 fields, pending>>

\* click on the add button
setAddMode ==
  /\ input' = [b \in Bindings |-> ""]
  /\ hidden' = [b \in Bindings |-> ""]
  /\ fields' = [f \in FieldNames |-> ""]
  /\ last' = EdStep("add", 1)
  /\ UNCHANGED <<bound, dl, t, inflight, docVars, chartVars, dirty,
                 fillTimers, pending>>

\* the user types into one of the four text fields (no listener)
TypeField(f, text) ==
  /\ fields' = [fields EXCEPT ![f] = text]
  /\ last' = EdStep("type", 1)
  /\ UNCHANGED <<bound, input, hidden, dl, t, inflight, docVars, chartVars,
                 dirty, fillTimers, pending>>

\* a timeout callback that looks up the id its change event resolved
fillTimerFiresCaptured ==
  /\ fillTimers # <<>>
  /\ fillTimers' = Tail(fillTimers)
  /\ LET pid == Head(fillTimers).resolved IN
       /\ pending' = IF pid = "" THEN pending ELSE Enter("fill_fetch")
       /\ last' = [EdStep("fill_timer", 1) EXCEPT
                     !.sent = (pid # ""), !.q = pid,
                     !.resolved = Head(fillTimers).resolved]
  /\ UNCHANGED <<bound, input, hidden, dl, t, inflight, docVars, chartVars,
                 dirty, fields>>

\* the zero-delay timeout fires: fillFromPromoterId(promoterIdEl.value)
\* returns at once for an empty id, else suspends at its fetch
fillTimerFires ==
  /\ fillTimers # <<>>
  /\ fillTimers' = Tail(fillTimers)
  /\ LET pid == hidden[1] IN
       /\ pending' = IF pid = "" THEN pending ELSE Enter("fill_fetch")
       /\ last' = [EdStep("fill_timer", 1) EXCEPT
                     !.sent = (pid # ""), !.q = pid,
                     !.resolved = Head(fillTimers).resolved]
  /\ UNCHANGED <<bound, input, hidden, dl, t, inflight, docVars, chartVars,
                 dirty, fields>>

\* the lookup's fetch resolves: a response that is not ok ends the call
fillFetched(ok) ==
  /\ pending["fill_fetch"] > 0
  /\ pending' = IF ok THEN Resume("fill_fetch", "fill_json")
                      ELSE Return("fill_fetch")
  /\ last' = EdStep(IF ok THEN "fill_resume" ELSE "fill_notok", 1)
  /\ UNCHANGED <<bound, input, hidden, dl, t, inflight, docVars, chartVars,
                 dirty, fields, fillTimers>>

\* the lookup's fetch or r.json() rejects: caught, nothing is done
fillThrows(s) ==
  /\ s \in {"fill_fetch", "fill_json"}
  /\ pending[s] > 0
  /\ pending' = Return(s)
  /\ last' = EdStep("fill_throw", 1)
  /\ UNCHANGED <<bound, input, hidden, dl, t, inflight, docVars, chartVars,
                 dirty, fields, fillTimers>>

\* the lookup's r.json() resolves: an error payload ends the call; else
\* every empty field, the publisher input and the publisher id included,
\* takes the promoter's value
fillParsed(js) ==
  /\ pending["fill_json"] > 0
  /\ pending' = Return("fill_json")
  /\ IF js.error
       THEN /\ last' = EdStep("fill_error", 1)
            /\ UNCHANGED <<fields, input, hidden>>
       ELSE /\ fields' = [f \in FieldNames |-> FillIfEmpty(fields[f], js.name)]
            /\ input' = [input EXCEPT ![2] = FillIfEmpty(@, js.cname)]
            /\ hidden' = [hidden EXCEPT ![2] = FillIfEmpty(@, js.cid)]
            /\ last' = EdStep("fill_applied", 2)
  /\ UNCHANGED <<bound, dl, t, inflight, docVars, chartVars, dirty, fillTimers>>

\* click on an edit-share button: the handler suspends at its fetch
editClick ==
  /\ Pending < MaxPending
  /\ pending' = Enter("edit_fetch")
  /\ last' = EdStep("edit_click", 1)
  /\ UNCHANGED <<bound, input, hidden, dl, t, inflight, docVars, chartVars,
                 dirty, fields, fillTimers>>

\* the share's fetch resolves: a response that is not ok throws (caught)
editFetched(ok) ==
  /\ pending["edit_fetch"] > 0
  /\ pending' = IF ok THEN Resume("edit_fetch", "edit_json")
                      ELSE Return("edit_fetch")
  /\ last' = EdStep(IF ok THEN "edit_resume" ELSE "edit_failed", 1)
  /\ UNCHANGED <<bound, input, hidden, dl, t, inflight, docVars, chartVars,
                 dirty, fields, fillTimers>>

\* the share's fetch or r.json() rejects: caught and logged
editThrows(s) ==
  /\ s \in {"edit_fetch", "edit_json"}
  /\ pending[s] > 0
  /\ pending' = Return(s)
  /\ last' = EdStep("edit_failed", 1)
  /\ UNCHANGED <<bound, input, hidden, dl, t, inflight, docVars, chartVars,
                 dirty, fields, fillTimers>>

\* the share's r.json() resolves: an error payload throws (caught); else
\* the form is written from the share, ids and visible texts included
editParsed(js) ==
  /\ pending["edit_json"] > 0
  /\ pending' = Return("edit_json")
  /\ IF js.error
       THEN /\ last' = EdStep("edit_failed", 1)
            /\ UNCHANGED <<fields, input, hidden>>
       ELSE /\ hidden' = [b \in Bindings |-> IF b = 1 THEN js.pid ELSE js.cid]
            /\ input' = [b \in Bindings |-> IF b = 1 THEN js.nick ELSE js.cname]
            /\ fields' = [f \in FieldNames |-> js.name]
            /\ last' = EdStep("edit_applied", 1)
  /\ UNCHANGED <<bound, dl, t, inflight, docVars, chartVars, dirty, fillTimers>>

\* click on the create-publisher button: an empty name shows an error;
\* else the handler suspends at its fetch
createClick(name) ==
  /\ Pending < MaxPending
  /\ pending' = IF name = "" THEN pending ELSE Enter("create_fetch")
  /\ last' = EdStep(IF name = "" THEN "create_failed" ELSE "create_click", 2)
  /\ UNCHANGED <<bound, input, hidden, dl, t, inflight, docVars, chartVars,
                 dirty, fields, fillTimers>>

\* the create fetch resolves; its status is looked at after r.json()
createFetched(ok) ==
  /\ pending["create_fetch"] > 0
  /\ pending' = Resume("create_fetch",
                       IF ok THEN "create_json_ok" ELSE "create_json_notok")
  /\ last' = EdStep("create_resume", 2)
  /\ UNCHANGED <<bound, input, hidden, dl, t, inflight, docVars, chartVars,
                 dirty, fields, fillTimers>>

\* the create fetch or r.json() rejects: the error text is shown
createThrows(s) ==
  /\ s \in {"create_fetch", "create_json_ok", "create_json_notok"}
  /\ pending[s] > 0
  /\ pending' = Return(s)
  /\ last' = EdStep("create_failed", 2)
  /\ UNCHANGED <<bound, input, hidden, dl, t, inflight, docVars, chartVars,
                 dirty, fields, fillTimers>>

\* the create r.json() resolves: a response that is not ok or an error
\* payload shows the error; else the publisher input takes the label (or
\* the typed name) and the publisher id takes the new id
createParsed(ok, js) ==
  /\ pending[IF ok THEN "create_json_ok" ELSE "create_json_notok"] > 0
  /\ pending' = Return(IF ok THEN "create_json_ok" ELSE "create_json_notok")
  /\ IF ~ok \/ js.error
       THEN /\ last' = EdStep("create_failed", 2)
            /\ UNCHANGED <<input, hidden>>
       ELSE /\ input' = [input EXCEPT
                           ![2] = IF js.label # "" THEN js.label ELSE "Ana"]
            /\ hidden' = [hidden EXCEPT ![2] = js.id]
            /\ last' = EdStep("create_applied", 2)
  /\ UNCHANGED <<bound, dl, t, inflight, docVars, chartVars, dirty, fields,
                 fillTimers>>

\* initEditorialTab has attached both typeaheads to the empty form; earlier
\* searches have left options in the promoter's datalist
InitEditorial ==
  /\ bound = Bindings
  /\ lists = [b \in Bindings |-> 1]
  /\ listAttr = [b \in Bindings |-> ListId(b)]
  /\ attached = [b \in Bindings |-> 1]
  /\ input = [b \in Bindings |-> ""]
  /\ hidden = [b \in Bindings |-> ""]
  /\ dl = EdLists
  /\ t = [b \in Bindings |-> NoTimer]
  /\ inflight = [b \in Bindings |-> <<>>]
  /\ last = EdStep("init", 1)
  /\ hasGetChart = TRUE /\ hasModal = TRUE /\ hasCanvas = TRUE /\ ChartIdle
  /\ EditIdle

NextEditorial ==
  \/ \E b \in Bindings, text \in EdTexts : EdOnInput(b, text)
  \/ \E b \in Bindings, ev \in {"change", "blur"} : EdResolve(b, ev)
  \/ EdPromoterChange
  \/ setAddMode
  \/ fillTimerFires
  \/ \E ok \in BOOLEAN : fillFetched(ok)
  \/ \E s \in EdStages : fillThrows(s)
  \/ \E js \in Promoters : fillParsed(js)
  \/ editClick
  \/ \E ok \in BOOLEAN : editFetched(ok)
  \/ \E s \in EdStages : editThrows(s)
  \/ \E js \in Shares : editParsed(js)
  \/ \E name \in NewPublisherNames : createClick(name)
  \/ \E ok \in BOOLEAN : createFetched(ok)
  \/ \E s \in EdStages : createThrows(s)
  \/ \E ok \in BOOLEAN, js \in Created : createParsed(ok, js)

SpecEditorial == InitEditorial /\ [][NextEditorial]_vars

\* the promoter lookup with a user who also types into the form
NextFill ==
  \/ \E b \in Bindings, text \in EdTexts : EdOnInput(b, text)
  \/ EdPromoterChange
  \/ setAddMode
  \/ \E f \in FieldNames : TypeField(f, "usr")
  \/ fillTimerFires
  \/ \E ok \in BOOLEAN : fillFetched(ok)
  \/ \E s \in EdStages : fillThrows(s)
  \/ \E js \in Promoters : fillParsed(js)

SpecFill == InitEditorial /\ [][NextFill]_vars

\* ------------------------------------------------------------------ claims

\* the requests of binding b before the step, with the ghost flag as the
\* step leaves it on requests that stay in flight
Superseded(reqs) == [i \in 1..Len(reqs) |-> [reqs[i] EXCEPT !.newest = FALSE]]

\* the step issues exactly one request on binding b, for query q
IssuesOne(b, q) ==
  /\ inflight'[b] = Append(Superseded(inflight[b]),
                           [at |-> "fetch", newest |-> TRUE])
  /\ last'.sent /\ last'.b = b /\ last'.q = q

\* the step issues no request on binding b
IssuesNone(b) ==
  /\ Len(inflight'[b]) <= Len(inflight[b])
  /\ ~(last'.sent /\ last'.b = b)

\* the step is the expiry of binding b's timeout, ending a burst
Expires(b) == t[b].pending /\ ~t'[b].pending

\* C1 as stated: a keystroke issues no request, and the expiry that ends a
\* burst of keystrokes issues exactly one request, whose query is the text
\* present after the last keystroke.
C1_OneRequestPerBurst ==
  [][\A b \in Bindings :
       /\ (last'.op = "input" /\ last'.b = b) => IssuesNone(b)
       /\ Expires(b) => IssuesOne(b, input[b])]_vars

\* C1 amended: a keystroke issues no request; the expiry that ends a burst
\* issues exactly one request for the text present after the last keystroke
\* when that text is not empty, and no request when it is empty.
C1_OneSearchPerBurst ==
  [][\A b \in Bindings :
       /\ (last'.op = "input" /\ last'.b = b) => IssuesNone(b)
       /\ Expires(b) =>
            IF input[b] = "" THEN IssuesNone(b) ELSE IssuesOne(b, input[b])]_vars

\* a burst of several keystrokes has ended and its single request, for the
\* final text, is in flight
C1_Witness ==
  \E b \in bound :
    /\ last.op = "timer" /\ last.b = b /\ last.coalesced
    /\ last.promise = "pending"
    /\ last.sent /\ last.q = input[b] /\ last.q = "Bob"
    /\ Len(inflight[b]) = 1

\* indexes of the options of binding b whose value is exactly the input text
Matching(b) == {i \in 1..Len(dl[b]) : dl[b][i].value = input[b]}

\* the hidden field of binding b agrees with the input text and the datalist
Resolved(b) ==
  IF Matching(b) = {} THEN hidden[b] = ""
  ELSE \E i \in Matching(b) : hidden[b] = dl[b][i].id

\* C2: once a newer request has been issued, the response of an older request
\* is discarded, whichever response arrives first: it leaves the suggestion
\* list as it was, so the list never comes to hold the older query's results.
C2_StaleResponseDiscarded ==
  [][\A b \in Bindings :
       (last'.op = "json_ok" /\ last'.b = b /\ ~last'.newest) =>
          dl'[b] = dl[b]]_vars

\* C3: in every reachable state the hidden field is empty when the input text
\* equals no label of the suggestion list, and is the id of an entry with
\* that label when it does.
C3_SelectionStateInv == \A b \in bound : Resolved(b)

\* C4: after a change or blur the hidden field holds the id of a suggestion
\* whose label is exactly the input text, and is empty when no label matches.
C4_ResolutionExactMatch == \A b \in bound : JustResolved(b) => Resolved(b)

\* "Bob" resolved to "2" past a non-matching first option
C4_Witness ==
  \E b \in bound :
    /\ JustResolved(b)
    /\ input[b] = "Bob"
    /\ dl[b] = <<[value |-> "Alice", id |-> "1"], [value |-> "Bob", id |-> "2"]>>
    /\ hidden[b] = "2"

\* C5: a search that is handed an empty query issues no request and leaves
\* the suggestion list empty.
C5_EmptyQueryNoRequest ==
  [][\A b \in Bindings :
       (Expires(b) /\ t[b].args = "") =>
          /\ inflight'[b] = inflight[b]
          /\ ~last'.sent
          /\ dl'[b] = <<>>]_vars

\* a search ran on the emptied input while a request was still in flight
C5_Witness ==
  \E b \in bound :
    /\ last.op = "timer" /\ last.b = b /\ last.promise = "fulfilled"
    /\ input[b] = "" /\ dl[b] = <<>>
    /\ inflight[b] # <<>>

\* C6: no state has the input emptied by a keystroke, suggestions still in
\* the list and the timeout still pending.
C6_EmptyQueryClearsAtOnce ==
  \A b \in bound :
    ~(last.op = "input" /\ last.b = b /\ input[b] = "" /\ dl[b] # <<>>
      /\ t[b].pending)

\* C7: a non-ok response leaves the suggestion list and the hidden field as
\* they were and the search call ends fulfilled.
C7_NotOkDropsUpdate ==
  [][\A b \in Bindings :
       (last'.op = "fetch_notok" /\ last'.b = b) =>
          /\ dl'[b] = dl[b]
          /\ hidden'[b] = hidden[b]
          /\ last'.promise = "fulfilled"]_vars

\* a non-ok response arrived over a filled list and a resolved selection
C7_Witness ==
  \E b \in bound :
    /\ last.op = "fetch_notok" /\ last.b = b /\ last.promise = "fulfilled"
    /\ dl[b] # <<>> /\ hidden[b] # ""

\* C8: a failed fetch and an unparsable body leave the suggestion list and
\* the hidden field as they were and the search call ends fulfilled, as for a
\* non-ok response.
C8_FailuresSwallowed ==
  [][\A b \in Bindings :
       (last'.op \in {"fetch_err", "json_err"} /\ last'.b = b) =>
          /\ dl'[b] = dl[b]
          /\ hidden'[b] = hidden[b]
          /\ last'.promise = "fulfilled"]_vars

\* C9: a resolution that directly follows a resolution of the same binding
\* leaves the hidden field as the first one left it.
C9_ResolutionIdempotent ==
  [][\A b \in Bindings :
       (JustResolved(b) /\ last'.op \in {"change", "blur"} /\ last'.b = b) =>
          hidden'[b] = hidden[b]]_vars

\* two resolutions in a row ended on a resolved id
C9_Witness ==
  \E b \in bound : JustResolved(b) /\ last.repeat /\ hidden[b] # ""

\* C10: after a successful response the suggestion list is exactly the
\* returned array: same length, same entries at the same positions.
C10_ListReplaced ==
  \A b \in bound :
    (last.op = "json_ok" /\ last.b = b) =>
       /\ Len(dl[b]) = Len(last.js)
       /\ \A i \in 1..Len(last.js) :
            dl[b][i] = [value |-> last.js[i].label, id |-> last.js[i].id]

\* a response that repeats one entry was applied, both copies kept
C10_Witness ==
  \E b \in bound :
    /\ last.op = "json_ok" /\ last.b = b
    /\ Len(last.js) = MaxItems
    /\ last.js[1] = last.js[2]
    /\ Len(dl[b]) = MaxItems

\* the step is a change or blur of binding b
Commits(b) == last'.op \in {"change", "blur"} /\ last'.b = b

\* C11: the hidden field is written by a commit (change or blur) alone, with
\* the resolution of the text committed then; every other step, a response
\* that arrives after the commit included, leaves it as the last commit
\* left it.
C11_HiddenFollowsLastCommit ==
  [][\A b \in Bindings :
       IF Commits(b)
         THEN hidden'[b] = FoundId(input[b], dl[b]) /\ input'[b] = input[b]
         ELSE hidden'[b] = hidden[b]]_vars

\* a response arrived after the commit of "Bob" and changed the list; the
\* hidden field still holds what that commit resolved
C11_Witness ==
  \E b \in bound :
    /\ last.op = "json_ok" /\ last.b = b
    /\ input[b] = "Bob" /\ hidden[b] = "2"
    /\ \A i \in 1..Len(dl[b]) : dl[b][i].id # "2"

\* C12: a request is issued by the expiry of a timeout that carries a
\* non-empty query, once, and by no other step: a failed response issues
\* none, so requests and such expiries stay equal in number.
C12_RequestsOnlyFromExpiries ==
  [][\A b \in Bindings :
       IF Expires(b) /\ t[b].args # ""
         THEN Len(inflight'[b]) = Len(inflight[b]) + 1
              /\ last'.sent /\ last'.b = b
         ELSE IssuesNone(b)]_vars

\* the only request failed and nothing is scheduled or in flight after it
C12_Witness ==
  \E b \in bound :
    /\ last.op \in {"fetch_notok", "fetch_err", "json_err"} /\ last.b = b
    /\ ~last.sent
    /\ inflight[b] = <<>> /\ ~t[b].pending

\* C13: a keystroke re-arms the timeout and leaves the requests in flight
\* alone, and the successful response of every request, superseded or not,
\* replaces the suggestion list when it arrives.
C13_InFlightNeverCancelled ==
  [][\A b \in Bindings :
       /\ (last'.op = "input" /\ last'.b = b) =>
            /\ inflight'[b] = inflight[b]
            /\ t'[b].pending /\ t'[b].args = input'[b]
       /\ (last'.op = "json_ok" /\ last'.b = b) =>
            /\ dl'[b] = AppendAll(<<>>, last'.js)
            /\ Len(inflight'[b]) = Len(inflight[b]) - 1]_vars

\* two requests were outstanding; the superseded one's response was applied
\* while the newer one is still in flight
C13_Witness ==
  \E b \in bound :
    /\ last.op = "json_ok" /\ last.b = b /\ ~last.newest
    /\ dl[b] # <<>>
    /\ inflight[b] # <<>>

\* C14: once initTypeahead has run for an input id, whatever the number of
\* calls and whether or not the list existed before, the document holds
\* exactly one list with the id <inputId>_list and the input's list attribute
\* names it.
C14_OneListPerInput ==
  \A b \in Bindings :
    attached[b] >= 1 => lists[b] = 1 /\ listAttr[b] = ListId(b)

\* initTypeahead ran more than once for an input whose list existed before
\* (its options are still there) and for one whose list it had to create
C14_Witness ==
  \E b, c \in Bindings :
    /\ attached[b] >= 2 /\ lists[b] = 1 /\ dl[b] # <<>>
    /\ attached[c] >= 2 /\ lists[c] = 1 /\ dl[c] = <<>>

\* C15: whatever the interleaving of openChart and openSalesChart calls, the
\* canvas holds at most one live chart.
C15_OneLiveChart == Cardinality(live) <= 1

\* ids that reach a hidden field from a response body and from no datalist
PageIds == {"7"}

\* C16: a hidden field that holds an id written by the page keeps it through
\* a change or blur event of its visible input.
C16_PageIdSurvivesResolution ==
  [][\A b \in Bindings :
       (hidden[b] \in PageIds /\ Commits(b)) => hidden'[b] = hidden[b]]_vars

\* steps that write an id into the hidden field of a binding
IdWriters ==
  {"change", "blur", "edit_applied", "fill_applied", "create_applied"}

\* C17: an input event on the promoter or publisher input leaves its hidden
\* id empty in the same step, and an empty hidden id becomes non-empty only
\* in a later resolution or page write, never in a keystroke.
C17_KeystrokeEmptiesId ==
  [][\A b \in Bindings :
       /\ (last'.op = "input" /\ last'.b = b) =>
            hidden'[b] = "" /\ input'[b] \in EdTexts
       /\ (hidden[b] = "" /\ hidden'[b] # "") => last'.op \in IdWriters]_vars

\* a keystroke found an id in the hidden field and emptied it
C17_Witness ==
  \E b \in Bindings :
    /\ last.op = "input" /\ last.b = b
    /\ last.had \in PageIds
    /\ hidden[b] = ""

\* the step just taken ended an openSalesChart call in its catch block
SalesFailed(c) ==
  /\ c.fn = "openSalesChart"
  /\ c.op \in {"missing", "sales_notok", "reject", "throw"}

\* C18: a step in which openSalesChart fails (element missing, sales
\* response not ok, an await rejected, constructor threw) resolves the call's
\* promise, raises an alert, constructs no chart and does not show the
\* modal; a concert-metadata response that is not ok raises no alert, writes
\* the empty subtitle and lets the call go on to the sales fetch, and that
\* call draws its chart when the sales arrive and parse.
C18_SalesChartFailsQuietly ==
  [][/\ SalesFailed(clast') =>
          /\ clast'.promise = "fulfilled" /\ clast'.alert
          /\ made' = made /\ live' = live /\ shown' = shown
     /\ (clast'.fn = "openSalesChart" /\ clast'.op = "meta_notok") =>
          /\ clast'.promise = "pending" /\ ~clast'.alert
          /\ subtitle' = ""
          /\ calls'[SC("data_fetch", FALSE)]
               = calls[SC("data_fetch", FALSE)] + 1
     /\ (calls'[SC("data_json", FALSE)] < calls[SC("data_json", FALSE)]
           /\ CanConstruct(live) /\ clast'.op # "reject") =>
          /\ made' = made + 1 /\ shown' /\ ~clast'.alert
          /\ clast'.promise = "fulfilled"]_vars

\* a call whose metadata response was not ok went on to the sales fetch,
\* and failed there: alert raised, promise resolved, no chart, modal hidden
C18_Witness ==
  /\ SalesFailed(clast) /\ clast.op = "sales_notok" /\ ~clast.metaOk
  /\ clast.alert /\ clast.promise = "fulfilled"
  /\ made = 0 /\ ~shown /\ subtitle = ""

\* C19 as stated: the lookup started by the zero-delay timeout carries the
\* id that the resolution of its own change event wrote, and none is started
\* when that id is empty.
C19_LookupUsesResolvedId ==
  last.op = "fill_timer" =>
    /\ last.sent => last.q = last.resolved
    /\ last.resolved = "" => ~last.sent

\* C19 amended: the change event resolves first and arms the timeout with
\* nothing read yet; when the timeout fires the lookup is started with the
\* id the hidden field holds then, and not started when the field is empty;
\* fired right after its change event, that is the id resolution wrote.
C19_LookupUsesIdAtTimeout ==
  [][/\ (last'.op = "change" /\ last'.b = 1) =>
          /\ hidden'[1] = FoundId(input[1], dl[1])
          /\ fillTimers' = Append(fillTimers, [resolved |-> hidden'[1]])
          /\ pending' = pending
     /\ last'.op = "fill_timer" =>
          /\ last'.q = hidden[1] /\ last'.sent = (hidden[1] # "")
          /\ last'.resolved = Head(fillTimers).resolved
          /\ pending'["fill_fetch"]
               = pending["fill_fetch"] + (IF hidden[1] # "" THEN 1 ELSE 0)
          /\ (last.op = "change" /\ last.b = 1 /\ Len(fillTimers) = 1) =>
               last'.q = last'.resolved]_vars

\* a change event resolved "Bob" to its id and the timeout that followed
\* started the lookup with that id
C19_Witness ==
  /\ last.op = "fill_timer" /\ last.sent
  /\ last.q = "2" /\ last.resolved = "2"
  /\ pending["fill_fetch"] = 1

\* C20: the step that applies a promoter to the form keeps every field that
\* was non-empty before it (the four text fields, the publisher name, the
\* publisher id), and a lookup that ends with a response that is not ok, an
\* error payload or a rejection changes no field.
C20_FillKeepsUserData ==
  [][/\ last'.op = "fill_applied" =>
          /\ \A f \in FieldNames : fields[f] # "" => fields'[f] = fields[f]
          /\ input[2] # "" => input'[2] = input[2]
          /\ hidden[2] # "" => hidden'[2] = hidden[2]
          /\ input'[1] = input[1] /\ hidden'[1] = hidden[1]
     /\ last'.op \in {"fill_notok", "fill_error", "fill_throw"} =>
          fields' = fields /\ input' = input /\ hidden' = hidden]_vars

\* a promoter was applied to a form in which the user had typed a first name
\* and a publisher name: both are kept, the empty fields are filled
C20_Witness ==
  /\ last.op = "fill_applied"
  /\ fields["first_name"] = "usr" /\ fields["last_name"] = "srv"
  /\ input[2] = "Bob" /\ hidden[2] = "7"

\* the position of the first option whose value equals the input text
FirstMatch(b) ==
  CHOOSE i \in Matching(b) : \A j \in Matching(b) : i <= j

\* C21: when several options carry the input text as their value, a
\* resolution writes the id of the first of them in list order (the order of
\* the response), and the id of no later one.
C21_FirstMatchWins ==
  \A b \in bound :
    (JustResolved(b) /\ Cardinality(Matching(b)) >= 2) =>
      hidden[b] = dl[b][FirstMatch(b)].id

\* the list holds two "Bob" with different ids, "3" before "2", and the
\* resolution of "Bob" wrote "3"
C21_Witness ==
  \E b \in bound :
    /\ JustResolved(b)
    /\ input[b] = "Bob"
    /\ dl[b] = <<[value |-> "Bob", id |-> "3"], [value |-> "Bob", id |-> "2"]>>
    /\ hidden[b] = "3"

\* C22: a resolution changes the hidden field alone; a response that is
\* applied, or the clearing for an empty query, changes the suggestion list
\* alone among input text, hidden field and list; and a step of one binding
\* leaves the timer, list, hidden field, input text and suspended calls of
\* every other binding as they were.
C22_FrameConditions ==
  [][\A b \in Bindings :
       /\ Commits(b) =>
            input' = input /\ dl' = dl /\ t' = t /\ inflight' = inflight
       /\ (last'.b = b /\ (\/ last'.op = "json_ok"
                           \/ last'.op = "timer" /\ ~last'.sent)) =>
            hidden' = hidden /\ input' = input
       /\ last'.b = b =>
            \A c \in Bindings \ {b} :
              /\ t'[c] = t[c] /\ dl'[c] = dl[c] /\ hidden'[c] = hidden[c]
              /\ input'[c] = input[c] /\ inflight'[c] = inflight[c]]_vars

\* a response was just applied on binding 1 while binding 2 holds a
\* resolved id, a list of its own and a pending timer
C22_Witness ==
  /\ last.op = "json_ok" /\ last.b = 1
  /\ dl[1] # <<>>
  /\ hidden[2] = "2" /\ dl[2] # <<>> /\ t[2].pending
  /\ hidden[1] = ""

====
